---- MODULE Spec2Model ----
(***************************************************************************)
(* A model of scr/text_cleaner.py: the TextCleaner configuration, its      *)
(* cleaning pipeline (clean), the specialised operations built on it and   *)
(* the callers that share one TextCleaner.                                 *)
(*                                                                         *)
(* A text is a sequence of characters.  A letter, a digit or a plain ASCII *)
(* sign is the one-character string of itself; any other codepoint is the  *)
(* string "U+XXXX" of its number.                                          *)
(***************************************************************************)
EXTENDS Integers, Sequences, FiniteSets, TLC

\* cfg: the fields of the TextCleaner the callers share
\* op, arg, res: the call made last, its argument and what it ended with
\* buf, pieces: the text a caller is putting together, and the pieces in it
\* th: the calls under way, of the callers that run side by side
VARIABLES cfg, op, arg, res, buf, pieces, th

vars == <<cfg, op, arg, res, buf, pieces, th>>

(***************************************************************************)
(* Characters                                                              *)
(***************************************************************************)
NUL == "U+0000"
TAB == "U+0009"
LF == "U+000A"
VT == "U+000B"
FF == "U+000C"
CR == "U+000D"
NBSP == "U+00A0"
ZWSP == "U+200B"
ZWNJ == "U+200C"
ENDASH == "U+2013"
EMDASH == "U+2014"
LSQUO == "U+2018"
RSQUO == "U+2019"
LDQUO == "U+201C"
RDQUO == "U+201D"
BULLET == "U+2022"
DQ == "U+0022"
APOS == "U+0027"
BACKTICK == "U+0060"
SP == " "

\* text_cleaner.py:33-45.  The codepoints the literal really holds: the
\* "German", "double high" and "single curly" lines hold ASCII " and '.
QUOTES ==
    { DQ, APOS, "U+00AB", "U+00BB", "U+201E", "U+201F", "U+201B", BACKTICK,
      "U+00B4", "U+2033", "U+2032", "U+301D", "U+301E", "U+FF02" }

\* text_cleaner.py:48-67
SPECIAL_SPACES ==
    { NBSP, "U+2000", "U+2001", "U+2002", "U+2003", "U+2004", "U+2005",
      "U+2006", "U+2007", "U+2008", "U+2009", "U+200A", ZWSP, "U+202F",
      "U+205F", "U+3000", "U+FEFF" }

\* text_cleaner.py:70-81: the keys; every key maps to "-".
DASHES ==
    { ENDASH, EMDASH, "U+2015", "U+2010", "U+2011", "U+2012", "U+2212",
      "U+2043", "U+FE63", "U+FF0D" }

\* text_cleaner.py:113-124: the controls below 32 other than tab, newline and
\* carriage return, and the zero-width and invalid codepoints.
INVISIBLE_CHARS ==
    { NUL, "U+0001", "U+0002", "U+0003", "U+0004", "U+0005", "U+0006",
      "U+0007", "U+0008", VT, FF, "U+000E", "U+000F", "U+0010", "U+0011",
      "U+0012", "U+0013", "U+0014", "U+0015", "U+0016", "U+0017", "U+0018",
      "U+0019", "U+001A", "U+001B", "U+001C", "U+001D", "U+001E", "U+001F",
      ZWNJ, "U+200D", "U+2060", "U+2063", "U+2064", "U+FFFE", "U+FFFF",
      "U+FFFD" }

\* The characters str.isspace() holds of, which are those the pattern \s
\* matches in a str pattern: what str.strip() removes.
Whitespace ==
    { SP, TAB, LF, VT, FF, CR, "U+001C", "U+001D", "U+001E", "U+001F",
      "U+0085", NBSP, "U+1680", "U+2000", "U+2001", "U+2002", "U+2003",
      "U+2004", "U+2005", "U+2006", "U+2007", "U+2008", "U+2009", "U+200A",
      "U+2028", "U+2029", "U+202F", "U+205F", "U+3000" }

Digits == <<"0", "1", "2", "3", "4", "5", "6", "7", "8", "9">>

AsciiLower ==
    << "a", "b", "c", "d", "e", "f", "g", "h", "i", "j", "k", "l", "m", "n",
       "o", "p", "q", "r", "s", "t", "u", "v", "w", "x", "y", "z" >>

AsciiUpper ==
    << "A", "B", "C", "D", "E", "F", "G", "H", "I", "J", "K", "L", "M", "N",
       "O", "P", "Q", "R", "S", "T", "U", "V", "W", "X", "Y", "Z" >>

\* The place of c in the sequence s, 0 when it is not in it.
IndexOf(s, c) ==
    IF \E k \in 1..Len(s) : s[k] = c THEN CHOOSE k \in 1..Len(s) : s[k] = c
    ELSE 0

IsDigit(c) == IndexOf(Digits, c) > 0

\* str.lower() of one character (of the model's characters only the ASCII
\* capitals have a lowercase form).
LowerChar(c) ==
    IF IndexOf(AsciiUpper, c) > 0 THEN AsciiLower[IndexOf(AsciiUpper, c)] ELSE c

\* str.upper() of one character.
UpperChar(c) ==
    IF IndexOf(AsciiLower, c) > 0 THEN AsciiUpper[IndexOf(AsciiLower, c)] ELSE c

\* \w of a str pattern: alphanumerics and the underscore.
IsWord(c) ==
    \/ IndexOf(AsciiLower, c) > 0
    \/ IndexOf(AsciiUpper, c) > 0
    \/ IsDigit(c)
    \/ c = "_"

\* ord(c), for the characters the model's texts and character classes hold.
CodePoint(c) ==
    CASE IndexOf(AsciiLower, c) > 0 -> 96 + IndexOf(AsciiLower, c)
      [] IndexOf(AsciiUpper, c) > 0 -> 64 + IndexOf(AsciiUpper, c)
      [] IsDigit(c) -> 47 + IndexOf(Digits, c)
      [] c = NUL -> 0
      [] c = TAB -> 9
      [] c = LF -> 10
      [] c = VT -> 11
      [] c = FF -> 12
      [] c = CR -> 13
      [] c = SP -> 32
      [] c = DQ -> 34
      [] c = "&" -> 38
      [] c = APOS -> 39
      [] c = "-" -> 45
      [] c = "." -> 46
      [] c = "/" -> 47
      [] c = ";" -> 59
      [] c = "<" -> 60
      [] c = ">" -> 62
      [] c = "_" -> 95
      [] c = BACKTICK -> 96
      [] c = NBSP -> 160
      [] c = ZWSP -> 8203
      [] c = ZWNJ -> 8204
      [] c = ENDASH -> 8211
      [] c = EMDASH -> 8212
      [] c = LSQUO -> 8216
      [] c = RSQUO -> 8217
      [] c = LDQUO -> 8220
      [] c = RDQUO -> 8221
      [] c = BULLET -> 8226

(***************************************************************************)
(* Strings                                                                 *)
(***************************************************************************)
Chars(t) == { t[k] : k \in 1..Len(t) }

\* t[i:] in Python's terms, with i counted from 1.
From(t, i) == SubSeq(t, i, Len(t))

\* Whether p occurs in t at position i.
OccursAt(t, p, i) ==
    /\ i + Len(p) - 1 <= Len(t)
    /\ \A k \in 1..Len(p) : t[i + k - 1] = p[k]

RECURSIVE ReplaceFrom(_, _, _, _)
ReplaceFrom(t, p, r, i) ==
    IF i > Len(t) THEN <<>>
    ELSE IF OccursAt(t, p, i) THEN r \o ReplaceFrom(t, p, r, i + Len(p))
    ELSE <<t[i]>> \o ReplaceFrom(t, p, r, i + 1)

\* str.replace(p, r) for a non-empty p: the occurrences from the left, not
\* overlapping, the replacement not scanned again.
Replace(t, p, r) == ReplaceFrom(t, p, r, 1)

\* re.sub of a one-character class by the text r.
MapChars(t, S, r) ==
    LET RECURSIVE go(_)
        go(i) == IF i > Len(t) THEN <<>>
                 ELSE (IF t[i] \in S THEN r ELSE <<t[i]>>) \o go(i + 1)
    IN go(1)

\* str.strip(): the whitespace of both ends.
Strip(t) ==
    LET inner == { k \in 1..Len(t) : t[k] \notin Whitespace }
    IN IF inner = {} THEN <<>>
       ELSE SubSeq(t, CHOOSE k \in inner : \A j \in inner : k <= j,
                      CHOOSE k \in inner : \A j \in inner : j <= k)

\* str.lower()
Lower(t) == [k \in 1..Len(t) |-> LowerChar(t[k])]

\* str.upper()
Upper(t) == [k \in 1..Len(t) |-> UpperChar(t[k])]

\* The length of the longest run of characters of S in t from position i.
RECURSIVE RunIn(_, _, _)
RunIn(t, i, S) ==
    IF i <= Len(t) /\ t[i] \in S THEN 1 + RunIn(t, i + 1, S) ELSE 0

\* The length of the longest run of characters outside S in t from position i.
RECURSIVE RunNotIn(_, _, _)
RunNotIn(t, i, S) ==
    IF i <= Len(t) /\ t[i] \notin S THEN 1 + RunNotIn(t, i + 1, S) ELSE 0

Has(t, i, c) == i <= Len(t) /\ t[i] = c

\* A character of a pattern compiled with re.IGNORECASE.
HasNoCase(t, i, c) == i <= Len(t) /\ LowerChar(t[i]) = c

Min(a, b) == IF a <= b THEN a ELSE b

Max(S) == CHOOSE k \in S : \A j \in S : j <= k

(***************************************************************************)
(* html.unescape                                                           *)
(***************************************************************************)
\* html.entities.html5, cut down to the names the model's inputs can spell:
\* each with its semicolon and, for these four, without one as well.
Html5Names ==
    { <<"a", "m", "p", ";">>, <<"a", "m", "p">>,
      <<"l", "t", ";">>, <<"l", "t">>,
      <<"g", "t", ";">>, <<"g", "t">>,
      <<"n", "b", "s", "p", ";">>, <<"n", "b", "s", "p">> }

Html5Value(name) ==
    CASE name[1] = "a" -> <<"&">>
      [] name[1] = "l" -> <<"<">>
      [] name[1] = "g" -> <<">">>
      [] name[1] = "n" -> <<NBSP>>

\* The characters that end a named reference: [^\t\n\f <&#;]{1,32};? in
\* html's _charref pattern.
CharrefStop == { TAB, LF, FF, SP, "<", "&", "#", ";" }

\* html.replace_charref for a named reference s (the text after the "&"):
\* the name itself, else its longest proper prefix of two characters or more
\* that is a name, else the reference left as it is.
ReplaceCharref(s) ==
    IF s \in Html5Names THEN Html5Value(s)
    ELSE LET xs == { x \in 2..(Len(s) - 1) : SubSeq(s, 1, x) \in Html5Names }
         IN IF xs = {} THEN <<"&">> \o s
            ELSE Html5Value(SubSeq(s, 1, Max(xs))) \o From(s, Max(xs) + 1)

RECURSIVE UnescapeFrom(_, _)
UnescapeFrom(t, i) ==
    IF i > Len(t) THEN <<>>
    ELSE IF t[i] # "&" THEN <<t[i]>> \o UnescapeFrom(t, i + 1)
    ELSE LET n == Min(RunNotIn(t, i + 1, CharrefStop), 32)
             m == IF Has(t, i + n + 1, ";") THEN n + 1 ELSE n
         IN IF n = 0 THEN <<"&">> \o UnescapeFrom(t, i + 1)
            ELSE ReplaceCharref(SubSeq(t, i + 1, i + m))
                     \o UnescapeFrom(t, i + m + 1)

\* html.unescape(t), for texts without "#" (numeric references).
Unescape(t) == UnescapeFrom(t, 1)

\* HTML_ENTITIES (text_cleaner.py:84-110) in the order of the dict, cut down
\* to the keys the model's inputs can spell.
HTML_ENTITIES ==
    << <<(<<"&", "n", "b", "s", "p", ";">>), <<SP>> >>,
       <<(<<"&", "a", "m", "p", ";">>), <<"&">> >>,
       <<(<<"&", "l", "t", ";">>), <<"<">> >>,
       <<(<<"&", "g", "t", ";">>), <<">">> >> >>

\* for entity, replacement in self.HTML_ENTITIES.items():
\*     text = text.replace(entity, replacement)
RECURSIVE ReplaceEntities(_, _)
ReplaceEntities(t, k) ==
    IF k > Len(HTML_ENTITIES) THEN t
    ELSE ReplaceEntities(Replace(t, HTML_ENTITIES[k][1], HTML_ENTITIES[k][2]),
                         k + 1)

(***************************************************************************)
(* The patterns: the length of the match at position i, 0 for none (no     *)
(* pattern of the module matches the empty text)                           *)
(***************************************************************************)
\* <br\s*/?> with re.IGNORECASE
MatchBr(t, i) ==
    IF Has(t, i, "<") /\ HasNoCase(t, i + 1, "b") /\ HasNoCase(t, i + 2, "r")
    THEN LET j == i + 3 + RunIn(t, i + 3, Whitespace)
             k == IF Has(t, j, "/") THEN j + 1 ELSE j
         IN IF Has(t, k, ">") THEN k - i + 1 ELSE 0
    ELSE 0

\* </?p\s*/?> with re.IGNORECASE
MatchP(t, i) ==
    IF Has(t, i, "<")
    THEN LET a == IF Has(t, i + 1, "/") THEN i + 2 ELSE i + 1
         IN IF HasNoCase(t, a, "p")
            THEN LET j == a + 1 + RunIn(t, a + 1, Whitespace)
                     k == IF Has(t, j, "/") THEN j + 1 ELSE j
                 IN IF Has(t, k, ">") THEN k - i + 1 ELSE 0
            ELSE 0
    ELSE 0

\* <li[^>]*> with re.IGNORECASE
MatchLi(t, i) ==
    IF Has(t, i, "<") /\ HasNoCase(t, i + 1, "l") /\ HasNoCase(t, i + 2, "i")
    THEN LET k == i + 3 + RunNotIn(t, i + 3, {">"})
         IN IF Has(t, k, ">") THEN k - i + 1 ELSE 0
    ELSE 0

\* self._html_tag_pattern: <[^>]+>
MatchTag(t, i) ==
    IF Has(t, i, "<")
    THEN LET n == RunNotIn(t, i + 1, {">"})
         IN IF n >= 1 /\ Has(t, i + 1 + n, ">") THEN n + 2 ELSE 0
    ELSE 0

\* self._multi_space_pattern: [ \t]+
MatchSpaces(t, i) == RunIn(t, i, {SP, TAB})

\* A bug the newline pattern could have: \n\s*?\n, which stops at the first
\* newline that follows.
MatchNewlinesLazy(t, i) ==
    IF Has(t, i, LF)
    THEN LET w == RunIn(t, i + 1, Whitespace)
             nl == { k \in (i + 1)..(i + w) : t[k] = LF }
         IN IF nl = {} THEN 0
            ELSE (CHOOSE k \in nl : \A j \in nl : k <= j) - i + 1
    ELSE 0

\* self._multi_newline_pattern: \n\s*\n+ .  The greedy \s* runs to the end of
\* the whitespace and gives back as far as the last newline in it.
MatchNewlines(t, i) ==
    IF Has(t, i, LF)
    THEN LET w == RunIn(t, i + 1, Whitespace)
             nl == { k \in (i + 1)..(i + w) : t[k] = LF }
         IN IF nl = {} THEN 0 ELSE Max(nl) - i + 1
    ELSE 0

MatchAt(pat, t, i) ==
    CASE pat = "br" -> MatchBr(t, i)
      [] pat = "p" -> MatchP(t, i)
      [] pat = "li" -> MatchLi(t, i)
      [] pat = "tag" -> MatchTag(t, i)
      [] pat = "spaces" -> MatchSpaces(t, i)
      [] pat = "newlines" -> MatchNewlines(t, i)

RECURSIVE SubFrom(_, _, _, _)
SubFrom(pat, r, t, i) ==
    IF i > Len(t) THEN <<>>
    ELSE LET n == MatchAt(pat, t, i)
         IN IF n > 0 THEN r \o SubFrom(pat, r, t, i + n)
            ELSE <<t[i]>> \o SubFrom(pat, r, t, i + 1)

\* pattern.sub(r, t): the matches from the left, not overlapping.
Sub(pat, r, t) == SubFrom(pat, r, t, 1)

\* '\n'.join(line.strip() for line in text.split('\n'))
RECURSIVE StripLines(_)
StripLines(t) ==
    LET nl == { k \in 1..Len(t) : t[k] = LF }
    IN IF nl = {} THEN Strip(t)
       ELSE LET k == CHOOSE a \in nl : \A b \in nl : a <= b
            IN Strip(SubSeq(t, 1, k - 1)) \o <<LF>> \o StripLines(From(t, k + 1))

\* text[:n].rsplit(' ', 1)[0]
CutAtWord(t, n) ==
    LET cut == SubSeq(t, 1, Min(n, Len(t)))
        sp == { k \in 1..Len(cut) : cut[k] = SP }
    IN IF sp = {} THEN cut ELSE SubSeq(cut, 1, Max(sp) - 1)

Ellipsis == <<".", ".", ".">>

(***************************************************************************)
(* The configuration and the pipeline                                      *)
(***************************************************************************)
\* TextCleaner.__init__'s defaults.  max_length 0 stands for None (clean
\* tests its truth) and the empty text for an allowed_chars of None.
DefaultConfig ==
    [ remove_quotes |-> TRUE, normalize_dashes |-> TRUE,
      normalize_spaces |-> TRUE, remove_html_tags |-> TRUE,
      decode_html_entities |-> TRUE, remove_invisible |-> TRUE,
      preserve_newlines |-> FALSE, lowercase |-> FALSE, max_length |-> 0,
      allowed_chars |-> <<>>, extra_remove |-> <<>> ]

\* The values a caller hands over: None, a str, an int.
None == [type |-> "NoneType", value |-> <<>>, num |-> 0]

StrArg(t) == [type |-> "str", value |-> t, num |-> 0]

IntArg(n) == [type |-> "int", value |-> <<>>, num |-> n]

\* What a call ends with.
Return(t) == [kind |-> "return", value |-> t]

Raise(e) == [kind |-> "raise", value |-> <<e>>]

\* str(n) of an int n >= 0
RECURSIVE DecimalDigits(_)
DecimalDigits(n) ==
    IF n < 10 THEN <<Digits[n + 1]>>
    ELSE DecimalDigits(n \div 10) \o <<Digits[(n % 10) + 1]>>

\* str(x)
Str(x) == IF x.type = "int" THEN DecimalDigits(x.num) ELSE x.value

\* bool(x)
Truthy(x) == IF x.type = "int" THEN x.num # 0 ELSE x.value # <<>>

\* The items of the class body f as re parses it between "[^" and "]": a
\* range lo-hi or one character (f holds letters, spaces and hyphens only).
RECURSIVE ClassItems(_, _)
ClassItems(f, i) ==
    IF i > Len(f) THEN <<>>
    ELSE IF i + 2 <= Len(f) /\ f[i + 1] = "-"
         THEN << <<CodePoint(f[i]), CodePoint(f[i + 2])>> >>
                  \o ClassItems(f, i + 3)
         ELSE << <<CodePoint(f[i]), CodePoint(f[i])>> >> \o ClassItems(f, i + 1)

\* re.compile('[^' + f + ']') succeeds: no range runs backwards ("bad
\* character range").
ClassCompiles(f) ==
    LET items == ClassItems(f, 1)
    IN \A k \in 1..Len(items) : items[k][1] <= items[k][2]

\* Whether the character c is in one of the items.
InItems(items, c) ==
    LET cp == CodePoint(c)
    IN \E k \in 1..Len(items) : items[k][1] <= cp /\ cp <= items[k][2]

\* 1. Decode HTML entities first
DecodeEntities(c, t) ==
    IF c.decode_html_entities THEN ReplaceEntities(Unescape(t), 1) ELSE t

\* 2. Remove HTML tags
RemoveTags(c, t) ==
    IF c.remove_html_tags
    THEN Sub("tag", <<>>,
             Sub("li", <<LF, BULLET, SP>>, Sub("p", <<LF>>, Sub("br", <<LF>>, t))))
    ELSE t

\* 3. Remove invisible characters
RemoveInvisible(c, t) ==
    IF c.remove_invisible THEN MapChars(t, INVISIBLE_CHARS, <<>>) ELSE t

\* 4. Normalize special spaces
NormalizeSpaces(c, t) ==
    IF c.normalize_spaces THEN MapChars(t, SPECIAL_SPACES, <<SP>>) ELSE t

\* 5. Normalize dashes
NormalizeDashes(c, t) ==
    IF c.normalize_dashes THEN MapChars(t, DASHES, <<"-">>) ELSE t

\* 6. Remove quotes (replace with space to preserve word boundaries)
RemoveQuotes(c, t) ==
    IF c.remove_quotes THEN MapChars(t, QUOTES, <<SP>>) ELSE t

\* 7. Remove extra characters
RemoveExtra(c, t) ==
    IF c.extra_remove # <<>> THEN MapChars(t, Chars(c.extra_remove), <<>>) ELSE t

\* 8. Filter to allowed characters only: whether re.sub raises on the
\* pattern, and what it returns when it does not.
FilterRaises(c) == c.allowed_chars # <<>> /\ ~ClassCompiles(c.allowed_chars)

FilterAllowed(c, t) ==
    IF c.allowed_chars # <<>>
    THEN LET items == ClassItems(c.allowed_chars, 1)
         IN SelectSeq(t, LAMBDA ch : InItems(items, ch))
    ELSE t

\* A bug step 9 could have: the runs of spaces are collapsed before the
\* newlines are turned into spaces.
HandleWhitespaceCollapseFirst(c, t) ==
    IF c.preserve_newlines
    THEN StripLines(Sub("newlines", <<LF, LF>>, Sub("spaces", <<SP>>, t)))
    ELSE MapChars(MapChars(Sub("spaces", <<SP>>, t), {LF}, <<SP>>), {CR}, <<SP>>)

\* A bug step 9 could have: the carriage returns are left in.
HandleWhitespaceNewlineOnly(c, t) ==
    IF c.preserve_newlines
    THEN StripLines(Sub("newlines", <<LF, LF>>, Sub("spaces", <<SP>>, t)))
    ELSE Sub("spaces", <<SP>>, MapChars(t, {LF}, <<SP>>))

\* 9. Handle whitespace (must be after all replacements)
HandleWhitespace(c, t) ==
    IF c.preserve_newlines
    THEN StripLines(Sub("newlines", <<LF, LF>>, Sub("spaces", <<SP>>, t)))
    ELSE Sub("spaces", <<SP>>, MapChars(MapChars(t, {LF}, <<SP>>), {CR}, <<SP>>))

\* 10. Lowercase
Lowercase(c, t) == IF c.lowercase THEN Lower(t) ELSE t

\* 12. Truncate
Truncate(c, t) ==
    IF c.max_length # 0 /\ Len(t) > c.max_length
    THEN CutAtWord(t, c.max_length) \o Ellipsis
    ELSE t

NumStages == 12

\* A bug the order of the steps could have: the tags are removed before the
\* entities are decoded.
StageTagsFirst(k, c, t) ==
    CASE k = 1 -> RemoveTags(c, t)
      [] k = 2 -> DecodeEntities(c, t)
      [] k = 3 -> RemoveInvisible(c, t)
      [] k = 4 -> NormalizeSpaces(c, t)
      [] k = 5 -> NormalizeDashes(c, t)
      [] k = 6 -> RemoveQuotes(c, t)
      [] k = 7 -> RemoveExtra(c, t)
      [] k = 8 -> FilterAllowed(c, t)
      [] k = 9 -> HandleWhitespace(c, t)
      [] k = 10 -> Lowercase(c, t)
      [] k = 11 -> Strip(t)
      [] k = 12 -> Truncate(c, t)

\* Step k of clean on the text t.
Stage(k, c, t) ==
    CASE k = 1 -> DecodeEntities(c, t)
      [] k = 2 -> RemoveTags(c, t)
      [] k = 3 -> RemoveInvisible(c, t)
      [] k = 4 -> NormalizeSpaces(c, t)
      [] k = 5 -> NormalizeDashes(c, t)
      [] k = 6 -> RemoveQuotes(c, t)
      [] k = 7 -> RemoveExtra(c, t)
      [] k = 8 -> FilterAllowed(c, t)
      [] k = 9 -> HandleWhitespace(c, t)
      [] k = 10 -> Lowercase(c, t)
      [] k = 11 -> Strip(t)
      [] k = 12 -> Truncate(c, t)

\* Whether step k of clean raises.
StageRaises(k, c) == k = 8 /\ FilterRaises(c)

RECURSIVE Pipeline(_, _, _)
Pipeline(c, t, k) ==
    IF k > NumStages THEN Return(t)
    ELSE IF StageRaises(k, c) THEN Raise("re.error")
    ELSE Pipeline(c, Stage(k, c, t), k + 1)

\* TextCleaner.clean
Clean(c, x) ==
    IF x.type = "NoneType" THEN Return(<<>>)
    ELSE IF Str(x) = <<>> THEN Return(<<>>)
    ELSE Pipeline(c, Str(x), 1)

(***************************************************************************)
(* One caller: it puts a text together, has it cleaned, and has what came  *)
(* back cleaned again                                                      *)
(***************************************************************************)
NoThreads == <<>>

\* TextCleaner(**c): __init__ keeps the options as they are given and
\* compiles the fixed patterns of _compile_patterns only.
Constructed(c) ==
    /\ cfg = c
    /\ op = "__init__"
    /\ arg = None
    /\ res = Return(<<>>)
    /\ buf = <<>>
    /\ pieces = 0
    /\ th = NoThreads

\* The caller adds the piece p to its text, of at most max pieces.
AddPiece(p, max) ==
    /\ op = "__init__"
    /\ pieces < max
    /\ buf' = buf \o p
    /\ pieces' = pieces + 1
    /\ UNCHANGED <<cfg, op, arg, res, th>>

\* cleaner.clean(x)
CallClean(x) ==
    /\ op = "__init__"
    /\ op' = "clean"
    /\ arg' = x
    /\ res' = Clean(cfg, x)
    /\ UNCHANGED <<cfg, buf, pieces, th>>

\* cleaner.clean(r) of the text r that the clean before it returned
CleanAgain ==
    /\ op \in {"clean", "clean_again"}
    /\ res.kind = "return"
    /\ op' = "clean_again"
    /\ arg' = StrArg(res.value)
    /\ res' = Clean(cfg, StrArg(res.value))
    /\ UNCHANGED <<cfg, buf, pieces, th>>

(***************************************************************************)
(* Markup: entities (plain and escaped twice), tags, quotes                *)
(***************************************************************************)
MaxMarkupPieces == 3

MarkupPieces ==
    { <<"&">>, <<"a", "m", "p", ";">>, <<"&", "l", "t", ";">>,
      <<"&", "n", "b", "s", "p", ";">>, <<"<">>, <<"b", ">">>, <<"a">>,
      <<"b">>, <<SP>>, <<DQ>>, <<LDQUO>> }

\* A class body that keeps the letters a to m and the signs of markup.
MarkupClass == <<"a", "-", "m", "<", ">", "&", ";">>

MarkupMaxLength == 4

MarkupConfigs ==
    { [DefaultConfig EXCEPT !.decode_html_entities = d, !.normalize_spaces = d,
                            !.remove_html_tags = TRUE, !.remove_quotes = q,
                            !.extra_remove = x, !.allowed_chars = a,
                            !.max_length = m]
        : d \in BOOLEAN, q \in BOOLEAN,
          x \in { <<>>, <<"b">> }, a \in { <<>>, MarkupClass },
          m \in { 0, MarkupMaxLength } }
    \cup
    { [DefaultConfig EXCEPT !.normalize_spaces = FALSE,
                            !.normalize_dashes = FALSE,
                            !.remove_html_tags = h]
        : h \in BOOLEAN }

InitMarkup == \E c \in MarkupConfigs : Constructed(c)

NextMarkup ==
    \/ \E p \in MarkupPieces : AddPiece(p, MaxMarkupPieces)
    \/ CallClean(StrArg(buf))
    \/ CleanAgain

SpecMarkup == InitMarkup /\ [][NextMarkup]_vars

(***************************************************************************)
(* Lines: whitespace, newlines, truncation, the allow-list, and arguments  *)
(* that are no text                                                        *)
(***************************************************************************)
MaxLinesPieces == 5

LinesPieces == { <<"A">>, <<SP>>, <<LF>>, <<CR>>, <<TAB>>, <<VT>> }

\* A class body that keeps the capitals, the space and the newline.
LinesClass == <<"A", "-", "Z", SP, LF>>

\* A class body re refuses: its range runs backwards.
MalformedClass == <<"z", "-", "a">>

LinesMaxLength == 2

LinesConfigs ==
    { [DefaultConfig EXCEPT !.preserve_newlines = pn, !.remove_invisible = i,
                            !.lowercase = i, !.max_length = m,
                            !.allowed_chars = a]
        : pn \in BOOLEAN, i \in BOOLEAN, m \in { 0, LinesMaxLength },
          a \in { <<>>, LinesClass } }
    \cup
    { [DefaultConfig EXCEPT !.allowed_chars = MalformedClass] }

OtherArgs == { None, IntArg(0), IntArg(12) }

InitLines == \E c \in LinesConfigs : Constructed(c)

NextLines ==
    \/ \E p \in LinesPieces : AddPiece(p, MaxLinesPieces)
    \/ CallClean(StrArg(buf))
    \/ \E x \in OtherArgs : buf = <<>> /\ CallClean(x)
    \/ CleanAgain

SpecLines == InitLines /\ [][NextLines]_vars

(***************************************************************************)
(* Again: what a second clean does to the result of the first              *)
(***************************************************************************)
MaxAgainPieces == 3

AgainPieces ==
    { <<"&", "a", "m", "p", ";">>, <<"a", "m", "p", ";">>, <<"<">>,
      <<"b", ">">>, <<"A", SP>>, <<LF>>, <<DQ>>, <<"A">>, <<NBSP>> }

AgainClass == <<"a", "-", "z", "&", ";", LF>>

AgainConfigs ==
    { [DefaultConfig EXCEPT !.decode_html_entities = d, !.remove_html_tags = h,
                            !.preserve_newlines = pn, !.lowercase = lc,
                            !.normalize_spaces = lc,
                            !.extra_remove = xa[1], !.allowed_chars = xa[2]]
        : d \in BOOLEAN, h \in BOOLEAN, pn \in BOOLEAN, lc \in BOOLEAN,
          xa \in { << <<>>, <<>> >>, << <<SP>>, <<>> >>, << <<>>, AgainClass >> } }

InitAgain == \E c \in AgainConfigs : Constructed(c)

NextAgain ==
    \/ \E p \in AgainPieces : AddPiece(p, MaxAgainPieces)
    \/ CallClean(StrArg(buf))
    \/ CleanAgain

SpecAgain == InitAgain /\ [][NextAgain]_vars

(***************************************************************************)
(* Callers that share one TextCleaner.  A call of clean or                 *)
(* clean_description runs step by step, reading the fields of its cleaner  *)
(* at each step; the steps of the callers interleave.                      *)
(***************************************************************************)
NumCallers == 2

Callers == 1..NumCallers

SharedMaxLength == 3

SharedConfigs ==
    { DefaultConfig,
      [DefaultConfig EXCEPT !.lowercase = TRUE, !.max_length = SharedMaxLength] }

SharedArgs ==
    { None,
      StrArg(<<DQ, "A", DQ, SP, SP, "b", ".", "1", LF, LF, NUL, "c">>),
      StrArg(<<"<", "p", ">", "a", "&", "a", "m", "p", ";", NBSP, "B">>) }

StepwiseOps == { "clean", "clean_description" }

WholeOps ==
    { "clean_sku", "clean_price_text", "clean_url", "clean_email", "truncate",
      "is_empty" }

\* A caller's call under way: the operation, the step it is at (0 on entry,
\* k before step k of clean, Done once it has its result), its argument,
\* the cleaner whose fields its pipeline reads (the shared one, or its local
\* one with the options own), its text and its result.
Idle == [op |-> "idle", pc |-> 0, arg |-> None, self |-> "shared",
         own |-> DefaultConfig, text |-> <<>>, out |-> Return(<<>>)]

Done == NumStages + 1

(***************************************************************************)
(* The other operations of a TextCleaner                                   *)
(***************************************************************************)
\* The options clean_description builds its own TextCleaner with.
DescriptionConfig ==
    [DefaultConfig EXCEPT !.remove_quotes = FALSE, !.preserve_newlines = TRUE]

Bool(b) == Return(<<IF b THEN "True" ELSE "False">>)

\* TextCleaner.clean_sku, after its clean returned r
SkuOf(r) ==
    IF r.kind = "raise" THEN r
    ELSE Return(Upper(SelectSeq(r.value,
                    LAMBDA ch : IsWord(ch) \/ ch = "-" \/ ch = ".")))

\* TextCleaner.clean_sku
CleanSku(c, x) == IF ~Truthy(x) THEN Return(<<>>) ELSE SkuOf(Clean(c, x))

\* TextCleaner.clean_price_text
CleanPriceText(x) ==
    IF ~Truthy(x) THEN Return(<<>>)
    ELSE Return(Strip(SelectSeq(Unescape(Str(x)),
                    LAMBDA ch : IsDigit(ch) \/ ch = "." \/ ch = ",")))

\* TextCleaner.clean_url
CleanUrl(x) ==
    IF ~Truthy(x) THEN Return(<<>>)
    ELSE Return(MapChars(Strip(Str(x)), INVISIBLE_CHARS, <<>>))

\* TextCleaner.clean_email
CleanEmail(x) ==
    IF ~Truthy(x) THEN Return(<<>>)
    ELSE Return(MapChars(MapChars(Lower(Strip(Str(x))), INVISIBLE_CHARS, <<>>),
                         SPECIAL_SPACES, <<>>))

\* TextCleaner.truncate(text, max_length) with the suffix '...'
TruncateText(t, max) ==
    IF t = <<>> \/ Len(t) <= max THEN Return(t)
    ELSE Return(CutAtWord(t, max) \o Ellipsis)

\* TextCleaner.is_empty, after its clean returned r
EmptyOf(r) == IF r.kind = "raise" THEN r ELSE Bool(r.value = <<>>)

\* What the operation o returns on x when nothing runs beside it.
Alone(c, o, x) ==
    CASE o = "clean" -> Clean(c, x)
      [] o = "clean_description" -> Clean(DescriptionConfig, x)
      [] o = "clean_sku" -> CleanSku(c, x)
      [] o = "clean_price_text" -> CleanPriceText(x)
      [] o = "clean_url" -> CleanUrl(x)
      [] o = "clean_email" -> CleanEmail(x)
      [] o = "truncate" -> TruncateText(Str(x), SharedMaxLength)
      [] o = "is_empty" -> EmptyOf(Clean(c, x))

\* The fields the pipeline of caller c reads.
ConfigOf(c) == IF th[c].self = "shared" THEN cfg ELSE th[c].own

\* Caller c calls cleaner.o(x).
Begin(c, o, x) ==
    /\ th[c].op = "idle"
    /\ th' = [th EXCEPT ![c] = [Idle EXCEPT !.op = o, !.arg = x]]
    /\ UNCHANGED <<cfg, op, arg, res, buf, pieces>>

\* The head of clean (text_cleaner.py:213-221) on the cleaner slf: None and
\* the empty text return at once.
EnterPipeline(c, slf, own) ==
    LET x == th[c].arg
    IN IF x.type = "NoneType" \/ Str(x) = <<>>
       THEN th' = [th EXCEPT ![c].pc = Done, ![c].out = Return(<<>>)]
       ELSE th' = [th EXCEPT ![c].pc = 1, ![c].text = Str(x),
                             ![c].self = slf, ![c].own = own]

\* self.clean(x) is entered.
CleanEnter(c) ==
    /\ th[c].op = "clean"
    /\ th[c].pc = 0
    /\ EnterPipeline(c, "shared", DefaultConfig)
    /\ UNCHANGED <<cfg, op, arg, res, buf, pieces>>

\* A bug clean_description could have: it sets the options on self.
CleanDescriptionOnSelf(c) ==
    /\ th[c].op = "clean_description"
    /\ th[c].pc = 0
    /\ cfg' = DescriptionConfig
    /\ EnterPipeline(c, "shared", DefaultConfig)
    /\ UNCHANGED <<op, arg, res, buf, pieces>>

\* self.clean_description(x) is entered: it builds a TextCleaner of its own
\* and calls its clean.
CleanDescriptionEnter(c) ==
    /\ th[c].op = "clean_description"
    /\ th[c].pc = 0
    /\ EnterPipeline(c, "local", DescriptionConfig)
    /\ UNCHANGED <<cfg, op, arg, res, buf, pieces>>

\* One step of the pipeline of caller c, on the fields as they are now.
StageStep(c) ==
    /\ th[c].pc \in 1..NumStages
    /\ LET k == th[c].pc
           t == Stage(k, ConfigOf(c), th[c].text)
       IN IF StageRaises(k, ConfigOf(c))
          THEN th' = [th EXCEPT ![c].pc = Done, ![c].out = Raise("re.error")]
          ELSE IF k = NumStages
          THEN th' = [th EXCEPT ![c].pc = Done, ![c].text = t,
                                ![c].out = Return(t)]
          ELSE th' = [th EXCEPT ![c].pc = k + 1, ![c].text = t]
    /\ UNCHANGED <<cfg, op, arg, res, buf, pieces>>

\* One of the other operations, from its call to its result.
WholeCall(c) ==
    /\ th[c].op \in WholeOps
    /\ th[c].pc = 0
    /\ th' = [th EXCEPT ![c].pc = Done,
                        ![c].out = Alone(cfg, th[c].op, th[c].arg)]
    /\ UNCHANGED <<cfg, op, arg, res, buf, pieces>>

\* The call of caller c returns (or raises) to it.
ReturnCall(c) ==
    /\ th[c].op # "idle"
    /\ th[c].pc = Done
    /\ th' = [th EXCEPT ![c] = Idle]
    /\ UNCHANGED <<cfg, op, arg, res, buf, pieces>>

InitShared ==
    /\ cfg \in SharedConfigs
    /\ op = "__init__"
    /\ arg = None
    /\ res = Return(<<>>)
    /\ buf = <<>>
    /\ pieces = 0
    /\ th = [c \in Callers |-> Idle]

NextShared ==
    \E c \in Callers :
        \/ \E o \in StepwiseOps \cup WholeOps, x \in SharedArgs : Begin(c, o, x)
        \/ CleanEnter(c)
        \/ CleanDescriptionEnter(c)
        \/ StageStep(c)
        \/ WholeCall(c)
        \/ ReturnCall(c)

SpecShared == InitShared /\ [][NextShared]_vars

(***************************************************************************)
(* The claims                                                              *)
(***************************************************************************)
Cleaned == op \in {"clean", "clean_again"} /\ res.kind = "return"

C2_SingleLineHasNoNewline ==
    (Cleaned /\ ~cfg.preserve_newlines)
    => (LF \notin Chars(res.value) /\ CR \notin Chars(res.value))

\* A text with both, cleaned with remove_invisible off and no allow-list.
C2_Witness ==
    /\ op = "clean"
    /\ ~cfg.preserve_newlines
    /\ ~cfg.remove_invisible
    /\ cfg.allowed_chars = <<>>
    /\ arg.value = <<"A", LF, CR, VT, "A">>
    /\ res = Return(<<"A", SP, VT, "A">>)

\* C3: clean never raises on a TextCleaner that __init__ returned.
C3_CleanNeverRaises ==
    op \in {"clean", "clean_again"} => res.kind = "return"

\* C4: with max_length set, cleaning a text that clean returned never gives
\* a longer text: no second "..." is appended.
C4_RepeatedTruncationNeverGrows ==
    (Cleaned /\ op = "clean_again" /\ cfg.max_length > 0)
    => Len(res.value) <= Len(arg.value)

\* C5: with max_length set, the text clean returns is never longer than the
\* text it was given.
C5_TruncationNeverLengthens ==
    (Cleaned /\ op = "clean" /\ arg.type = "str" /\ cfg.max_length > 0)
    => Len(res.value) <= Len(arg.value)

\* C6: with decode_html_entities on, "&nbsp;" comes out as a plain space,
\* never as U+00A0, also with normalize_spaces off: a text without U+00A0
\* is cleaned into a text without it, and "a&nbsp;b" into "a b" when nothing
\* is deleted or cut.
C6_NbspEntityYieldsSpace ==
    (Cleaned /\ op = "clean" /\ cfg.decode_html_entities
        /\ NBSP \notin Chars(arg.value))
    => /\ NBSP \notin Chars(res.value)
       /\ ( /\ arg.value = <<"a", "&", "n", "b", "s", "p", ";", "b">>
            /\ cfg.extra_remove = <<>>
            /\ cfg.allowed_chars = <<>>
            /\ cfg.max_length = 0 )
          => res.value = <<"a", SP, "b">>

\* The quotation marks C7 lists: those of QUOTES and the curly ones.
QuotationMarks == QUOTES \cup { LSQUO, RSQUO, LDQUO, RDQUO }

\* C7: with remove_quotes on, the text clean returns holds no quotation mark.
C7_NoQuotationMarkLeft ==
    (Cleaned /\ cfg.remove_quotes) => Chars(res.value) \cap QuotationMarks = {}

\* C8: no step of any caller changes a field of the shared TextCleaner, and a
\* call that ends, whatever ran beside it, ends with what it would have
\* ended with alone.
C8_ReadOnlyAfterConstruction ==
    [][ /\ cfg' = cfg
        /\ \A c \in Callers :
               th'[c].pc = Done
               => th'[c].out = Alone(cfg, th'[c].op, th'[c].arg) ]_vars

\* A clean that has ended while a clean_description is in its pipeline.
C8_Witness ==
    /\ th # NoThreads
    /\ th[1].op = "clean"
    /\ th[1].pc = Done
    /\ th[1].out.value # <<>>
    /\ th[2].op = "clean_description"
    /\ th[2].pc \in 2..NumStages

\* The text holds '<', one or more characters other than '>', and '>'.
HoldsTag(t) ==
    \E i \in 1..Len(t) : \E j \in (i + 2)..Len(t) :
        /\ t[i] = "<"
        /\ t[j] = ">"
        /\ \A k \in (i + 1)..(j - 1) : t[k] # ">"

\* C9: with preserve_newlines on, the text clean returns never holds two
\* newlines with nothing or only whitespace between them other than as one
\* blank line: no third newline, no whitespace inside or around the pair.
C9_OneBlankLineAtMost ==
    (Cleaned /\ cfg.preserve_newlines)
    => \A i \in 1..Len(res.value) : \A j \in (i + 1)..Len(res.value) :
           ( /\ res.value[i] = LF
             /\ res.value[j] = LF
             /\ \A k \in (i + 1)..(j - 1) : res.value[k] \in Whitespace )
           => j = i + 1

\* Three newlines with whitespace between them, come out as one blank line.
C9_Witness ==
    /\ op = "clean"
    /\ cfg.preserve_newlines
    /\ cfg.max_length = 0
    /\ cfg.allowed_chars = <<>>
    /\ arg.value = <<"A", LF, SP, LF, "A">>
    /\ res = Return(<<"A", LF, LF, "A">>)

\* C10: with remove_html_tags on, whatever the other options, the text clean
\* returns holds no tag.
C10_NoTagLeft ==
    (Cleaned /\ cfg.remove_html_tags) => ~HoldsTag(res.value)

\* A tag written through an entity, decoded and removed.
C10_Witness ==
    /\ op = "clean"
    /\ cfg.remove_html_tags
    /\ cfg.decode_html_entities
    /\ arg.value = <<"&", "l", "t", ";", "b", ">", "a">>
    /\ res = Return(<<"a">>)

====
